---- MODULE Spec2Model ----
(***************************************************************************)
(* Model of the sleeper-scripts repository: four independent command-line  *)
(* scripts.  Each script is a sequential program; it gets its own          *)
(* specification over the shared variable list, the variables of the other *)
(* scripts staying at their idle values.                                   *)
(*                                                                         *)
(*   sleeper_weekly_max_pf_allteams.py  SpecSelect, SpecRequired,          *)
(*                                      SpecGetJson                        *)
(*   Standings.py                       SpecStandings                      *)
(*   topScorer.py                       SpecScores                         *)
(*   Kickers.py                         SpecKickers                        *)
(*                                                                         *)
(* Python values: a dict is a sequence of items in insertion order, a list *)
(* a sequence, a float score a natural number.                             *)
(***************************************************************************)
EXTENDS Integers, Sequences, FiniteSets, TLC

VARIABLES
    pc,                 \* position of the running script
    \* sleeper_weekly_max_pf_allteams.py
    rp,                 \* league["roster_positions"]
    required,           \* required-slot map: items <<[pos, need], ...>>
    players,            \* the pool handed to select_fixed_best
    chosen,             \* the lineup it returns
    total,              \* the total it returns
    retries,            \* get_json: the retries argument
    i,                  \* get_json: loop index
    last,               \* get_json: last exception seen, None before the first
    result,             \* get_json: returned JSON, None before the return
    log,                \* get_json: outcome of every request issued
    \* Standings.py and topScorer.py (week loops)
    week,               \* loop variable of the week loop
    start_week,         \* first week of the range
    end_week,           \* last week of the range (max_week in Standings.py)
    matchups,           \* the week's HTTP response: [status_code, json]
    calls,              \* the get_matchups calls so far: [week, status_code, entries]
    roster_divisions,   \* Standings.py: roster_id -> division label
    standings,          \* Standings.py: roster_id -> counters
    idx,                \* Standings.py: index of the matchup entry in turn
    position,           \* topScorer.py: the position argument
    weekly_scores,      \* topScorer.py: accumulated result
    \* Kickers.py
    field_goals,        \* the attempts data frame
    fg_summary,         \* the per-bucket summary
    \* sleeper_weekly_max_pf_allteams.py: find_top_roster_for_week and main
    fetching,           \* the fetch whose get_json call is running, "" when none
    rosters,            \* the rosters list, each roster by its roster_id
    week_matchups,      \* find_top_roster_for_week: matchups, the week's list
    players_all,        \* the player table: player id -> position
    owner_by_roster,    \* the roster ids, in the order of the rosters list
    matchup_by_rid,     \* roster_id -> the week's matchup entry
    best,               \* the best roster so far: [roster_id, total, lineup]
    results,            \* one [roster_id, total, lineup] per roster scored
    rid_idx             \* index of the roster in turn

lineupVars == <<rp, required, players, chosen, total>>
getJsonVars == <<retries, i, last, result, log>>
weekVars == <<week, start_week, end_week, matchups, calls>>
standingsVars == <<roster_divisions, standings, idx>>
scoresVars == <<position, weekly_scores>>
kickersVars == <<field_goals, fg_summary>>
topFetched == <<fetching, rosters, week_matchups, players_all>>
topVars == <<topFetched, owner_by_roster, matchup_by_rid, best, results, rid_idx>>
vars == <<pc, lineupVars, getJsonVars, weekVars, standingsVars, scoresVars, kickersVars,
          topVars>>

\* A value that may be None is a sequence: empty for Python's None, <<v>> for
\* the value v.  None is then different from every number, string and id.
None == <<>>
Some(v) == <<v>>
Value(o) == o[1]

IdleLineup == rp = <<>> /\ required = <<>> /\ players = <<>> /\ chosen = <<>> /\ total = 0
IdleGetJson == retries = 0 /\ i = 0 /\ last = None /\ result = None /\ log = <<>>
NoResponse == [status_code |-> 0, json |-> <<>>]
IdleWeek == week = 0 /\ start_week = 0 /\ end_week = 0 /\ matchups = NoResponse /\ calls = <<>>
IdleStandings == roster_divisions = <<>> /\ standings = <<>> /\ idx = 0
IdleScores == position = "" /\ weekly_scores = <<>>
IdleKickers == field_goals = <<>> /\ fg_summary = <<>>
IdleTop ==
    /\ fetching = "" /\ rosters = <<>> /\ week_matchups = <<>> /\ players_all = <<>>
    /\ owner_by_roster = <<>> /\ matchup_by_rid = <<>> /\ best = <<>> /\ results = <<>>
    /\ rid_idx = 0

(***************************************************************************)
(* Generic sequence helpers.                                               *)
(***************************************************************************)
RECURSIVE SumSeq(_)
SumSeq(s) == IF s = <<>> THEN 0 ELSE Head(s) + SumSeq(Tail(s))

Min(a, b) == IF a <= b THEN a ELSE b
Max(a, b) == IF a >= b THEN a ELSE b

\* slicing one element too far
SliceOneMore(s, n) == SubSeq(s, 1, Min(n + 1, Len(s)))

\* Python's s[:n], negative n included.
Slice(s, n) ==
    LET k == IF n >= 0 THEN Min(n, Len(s)) ELSE Max(Len(s) + n, 0)
    IN  SubSeq(s, 1, k)

(***************************************************************************)
(* sleeper_weekly_max_pf_allteams.py                                       *)
(***************************************************************************)
FIXED_REQUIRED ==
    << [pos |-> "QB", need |-> 1], [pos |-> "RB", need |-> 2],
       [pos |-> "WR", need |-> 3], [pos |-> "TE", need |-> 1],
       [pos |-> "DEF", need |-> 1], [pos |-> "K", need |-> 1] >>

\* dict helpers over item sequences
Keys(d) == {d[k].pos : k \in 1..Len(d)}
Get(d, key, default) ==
    IF key \in Keys(d)
    THEN d[CHOOSE k \in 1..Len(d) : d[k].pos = key].need
    ELSE default
\* d[key] = v: replaces the value in place, or appends a new item
Put(d, key, v) ==
    IF key \in Keys(d)
    THEN [k \in 1..Len(d) |-> IF d[k].pos = key THEN [pos |-> key, need |-> v] ELSE d[k]]
    ELSE Append(d, [pos |-> key, need |-> v])

\* the alias table left out
normalize_posNoAlias(pos) == pos

normalize_pos(pos) ==
    CASE pos = "DST" -> "DEF"
      [] pos = "D/ST" -> "DEF"
      [] pos = "PK" -> "K"
      [] OTHER -> pos

IgnoredSlots == {"BN", "IR", "TAXI"}

\* lines 77-82: the counting loop over roster_positions
RECURSIVE CountSlots(_, _)
CountSlots(slots, counts) ==
    IF slots = <<>> THEN counts
    ELSE LET pos == Head(slots)
             p == normalize_pos(pos)
         IN  IF pos \in IgnoredSlots THEN CountSlots(Tail(slots), counts)
             ELSE IF p \in Keys(FIXED_REQUIRED)
                  THEN CountSlots(Tail(slots), Put(counts, p, Get(counts, p, 0) + 1))
                  ELSE CountSlots(Tail(slots), counts)

\* lines 84-86: the fallback loop over FIXED_REQUIRED
RECURSIVE Fallback(_, _)
Fallback(fixed, counts) ==
    IF fixed = <<>> THEN counts
    ELSE LET f == Head(fixed)
         IN  IF Get(counts, f.pos, 0) = 0
             THEN Fallback(Tail(fixed), Put(counts, f.pos, f.need))
             ELSE Fallback(Tail(fixed), counts)

compute_required_from_league(roster_positions) ==
    Fallback(FIXED_REQUIRED, CountSlots(roster_positions, <<>>))

\* list.sort(key=score, reverse=True): stable, descending
RECURSIVE InsertDesc(_, _)
InsertDesc(p, sorted) ==
    IF sorted = <<>> THEN <<p>>
    ELSE IF Head(sorted).score >= p.score
         THEN <<Head(sorted)>> \o InsertDesc(p, Tail(sorted))
         ELSE <<p>> \o sorted

RECURSIVE SortDesc(_)
SortDesc(s) ==
    IF s = <<>> THEN <<>>
    ELSE InsertDesc(s[Len(s)], SortDesc(SubSeq(s, 1, Len(s) - 1)))

\* the per-position list left in pool order
by_posUnsorted(pool, pos) ==
    LET HasPos(p) == p.position = pos
    IN  SelectSeq(pool, HasPos)

\* lines 126-131: by_pos[pos], for a position of the map
by_pos(pool, pos) ==
    LET HasPos(p) == p.position = pos
    IN  SortDesc(SelectSeq(pool, HasPos))

WithSlot(p, slot) ==
    [player_id |-> p.player_id, position |-> p.position, score |-> p.score, slot |-> slot]

\* lines 133-135: the loop over required.items()
RECURSIVE ChooseSlots(_, _)
ChooseSlots(pool, req) ==
    IF req = <<>> THEN <<>>
    ELSE LET top == Slice(by_pos(pool, Head(req).pos), Head(req).need)
         IN  [k \in 1..Len(top) |-> WithSlot(top[k], Head(req).pos)] \o ChooseSlots(pool, Tail(req))

select_fixed_best(pool, req) ==
    LET lineup == ChooseSlots(pool, req)
    IN  [chosen |-> lineup, total |-> SumSeq([k \in 1..Len(lineup) |-> lineup[k].score])]

(***************************************************************************)
(* SpecSelect: select_fixed_best applied to every pool and required-slot   *)
(* map within the bounds.                                                  *)
(***************************************************************************)
MaxPool == 3
MaxScore == 2
MaxNeed == 2
PoolPositions == {"RB", "K", "LB"}
SlotNames == {"RB", "K"}

Players == [player_id : {0}, position : PoolPositions, score : 0..MaxScore]
\* pools: the player_id of an entry is its index, distinct within the pool
Pools ==
    UNION { { [k \in 1..n |-> [f[k] EXCEPT !.player_id = k]] : f \in [1..n -> Players] }
            : n \in 0..MaxPool }

Items == [pos : SlotNames, need : 0..MaxNeed]
\* dicts: no key twice
RequiredMaps ==
    UNION { { d \in [1..n -> Items] : \A a, b \in 1..n : d[a].pos = d[b].pos => a = b }
            : n \in 0..Cardinality(SlotNames) }

InitSelect ==
    /\ pc = "select"
    /\ players \in Pools
    /\ required \in RequiredMaps
    /\ rp = <<>> /\ chosen = <<>> /\ total = 0
    /\ IdleGetJson /\ IdleWeek /\ IdleStandings /\ IdleScores /\ IdleKickers /\ IdleTop

SelectFixedBest ==
    /\ pc = "select"
    /\ LET r == select_fixed_best(players, required)
       IN  chosen' = r.chosen /\ total' = r.total
    /\ pc' = "selected"
    /\ UNCHANGED <<rp, required, players, getJsonVars, weekVars, standingsVars,
                   scoresVars, kickersVars, topVars>>

NextSelect == SelectFixedBest
SpecSelect == InitSelect /\ [][NextSelect]_vars

RECURSIVE SumScores(_, _)
SumScores(pool, S) ==
    IF S = {} THEN 0
    ELSE LET k == CHOOSE x \in S : TRUE
         IN  pool[k].score + SumScores(pool, S \ {k})

PoolCount(pool, pos) == Cardinality({k \in 1..Len(pool) : pool[k].position = pos})
SlotCount(lineup, pos) == Cardinality({k \in 1..Len(lineup) : lineup[k].slot = pos})

\* a selection of pool players that respects the per-position counts of the map
Respects(pool, req, S) ==
    /\ \A k \in S : pool[k].position \in Keys(req)
    /\ \A pos \in Keys(req) :
          Cardinality({k \in S : pool[k].position = pos}) <= Get(req, pos, 0)

\* C1: the total returned by select_fixed_best is at least the total of any
\* other selection of distinct pool players that takes, for each position of
\* the map, at most that position's required count of players of that position.
GreedyIsOptimal ==
    pc = "selected" =>
        \A S \in SUBSET (1..Len(players)) :
            Respects(players, required, S) => total >= SumScores(players, S)

\* a position with more players than slots, the best of them not first in the pool
GreedyWitness ==
    /\ pc = "selected"
    /\ \E pos \in Keys(required) :
          /\ Get(required, pos, 0) >= 1
          /\ PoolCount(players, pos) > Get(required, pos, 0)
          /\ \E a, b \in 1..Len(players) :
                /\ a < b
                /\ players[a].position = pos /\ players[b].position = pos
                /\ players[a].score < players[b].score
                /\ \E k \in 1..Len(chosen) : chosen[k].player_id = b
                /\ \A k \in 1..Len(chosen) : chosen[k].player_id # a

\* C2: the lineup holds, for each position P of the map, exactly
\* min(required[P], number of pool players at P) distinct pool players, each
\* in the slot of its own position, and nobody whose position is outside the map.
LineupShape ==
    pc = "selected" =>
        /\ \A pos \in Keys(required) :
              SlotCount(chosen, pos) = Min(Get(required, pos, 0), PoolCount(players, pos))
        /\ \A k \in 1..Len(chosen) :
              /\ chosen[k].slot = chosen[k].position
              /\ chosen[k].position \in Keys(required)
              /\ chosen[k].player_id \in 1..Len(players)
              /\ players[chosen[k].player_id].position = chosen[k].position
              /\ players[chosen[k].player_id].score = chosen[k].score
        /\ \A a, b \in 1..Len(chosen) : chosen[a].player_id = chosen[b].player_id => a = b

\* a short position, a full one and a player outside the map in one pool
LineupShapeWitness ==
    /\ pc = "selected"
    /\ \E pos \in Keys(required) :
          /\ PoolCount(players, pos) < Get(required, pos, 0)
          /\ SlotCount(chosen, pos) = PoolCount(players, pos)
    /\ \E pos \in Keys(required) :
          /\ PoolCount(players, pos) > Get(required, pos, 0)
          /\ SlotCount(chosen, pos) = Get(required, pos, 0)
    /\ \E k \in 1..Len(players) : players[k].position \notin Keys(required)
    /\ Len(chosen) >= 1

(***************************************************************************)
(* SpecRequired: compute_required_from_league applied to every             *)
(* roster_positions list within the bounds.                                *)
(***************************************************************************)
MaxSlots == 4
SlotStrings ==
    {"QB", "RB", "WR", "TE", "DEF", "K", "DST", "D/ST", "PK",
     "BN", "IR", "TAXI", "FLEX", "SUPER_FLEX"}

RosterPositionLists == UNION { [1..n -> SlotStrings] : n \in 0..MaxSlots }

InitRequired ==
    /\ pc = "league"
    /\ rp \in RosterPositionLists
    /\ required = <<>> /\ players = <<>> /\ chosen = <<>> /\ total = 0
    /\ IdleGetJson /\ IdleWeek /\ IdleStandings /\ IdleScores /\ IdleKickers /\ IdleTop

ComputeRequired ==
    /\ pc = "league"
    /\ required' = compute_required_from_league(rp)
    /\ pc' = "required"
    /\ UNCHANGED <<rp, players, chosen, total, getJsonVars, weekVars, standingsVars,
                   scoresVars, kickersVars, topVars>>

NextRequired == ComputeRequired
SpecRequired == InitRequired /\ [][NextRequired]_vars

SixPositions == {"QB", "RB", "WR", "TE", "DEF", "K"}
\* the league's spellings of each position
Spellings(pos) ==
    CASE pos = "DEF" -> {"DEF", "DST", "D/ST"}
      [] pos = "K" -> {"K", "PK"}
      [] OTHER -> {pos}
DefaultCount(pos) ==
    CASE pos = "QB" -> 1 [] pos = "RB" -> 2 [] pos = "WR" -> 3
      [] pos = "TE" -> 1 [] pos = "DEF" -> 1 [] pos = "K" -> 1
LeagueCount(slots, pos) == Cardinality({k \in 1..Len(slots) : slots[k] \in Spellings(pos)})

\* C10: the map of compute_required_from_league has exactly the six keys QB,
\* RB, WR, TE, DEF, K; each value is the number of roster_positions entries
\* that normalize to the position when that number is nonzero, else the fixed
\* default; bench, IR, taxi and flex-like entries count for nothing.
RequiredFromLeague ==
    pc = "required" =>
        /\ Len(required) = 6
        /\ Keys(required) = SixPositions
        /\ \A pos \in SixPositions :
              Get(required, pos, 0) =
                  IF LeagueCount(rp, pos) # 0 THEN LeagueCount(rp, pos) ELSE DefaultCount(pos)

\* aliases counted above the default, next to a bench and a flex entry
RequiredFromLeagueWitness ==
    /\ pc = "required"
    /\ \E a, b, c, d \in 1..Len(rp) :
          rp[a] = "DST" /\ rp[b] = "D/ST" /\ rp[c] = "BN" /\ rp[d] = "FLEX"
    /\ Get(required, "DEF", 0) = 2
    /\ Get(required, "WR", 0) = 3

JsonValues == {"json_a", "json_b"}

(***************************************************************************)
(* Data of find_top_roster_for_week (sleeper_weekly_max_pf_allteams.py):   *)
(* the operators of its body and the values its five fetches can bring.    *)
(***************************************************************************)
NumTopRosters == 2
\* a roster_id is read with .get("roster_id"): None, or Some(id)
TopRosterIds == {Some(r) : r \in 1..NumTopRosters}
\* weekly points of one player; kickers and defenses do score below zero
TopPoints == {-2, 1}
TopRosterPositions == {<<>>, <<"K", "K">>, <<"PK", "BN">>}

\* the player table: player id -> the position the table holds for it
PlayerTable == [pid \in {1, 2} |-> IF pid = 1 THEN "K" ELSE "PK"]

\* line 19: retries: int = 3
DefaultRetries == 3

\* lines 89-99: id -> normalized position
build_player_meta_by_id(all) == [pid \in DOMAIN all |-> normalize_pos(all[pid])]

\* lines 101-119: one pool record per id of the entry's players list; a
\* player without points scores 0, a player without meta has position ""
build_roster_pool(matchup_entry, player_meta_by_id) ==
    LET pids == matchup_entry.players
        points_map == matchup_entry.players_points
    IN  [k \in 1..Len(pids) |->
            [player_id |-> pids[k],
             position |-> IF pids[k] \in DOMAIN player_meta_by_id
                          THEN normalize_pos(player_meta_by_id[pids[k]]) ELSE "",
             score |-> IF pids[k] \in DOMAIN points_map THEN points_map[pids[k]] ELSE 0]]

\* lines 57-64: roster_id -> owner, a dict: its keys in the order of their
\* first occurrence in the rosters list
RECURSIVE roster_owner_lookup(_)
roster_owner_lookup(rs) ==
    IF rs = <<>> THEN <<>>
    ELSE LET out == roster_owner_lookup(SubSeq(rs, 1, Len(rs) - 1))
             rid == rs[Len(rs)]
         IN  IF \E k \in 1..Len(out) : out[k] = rid THEN out ELSE Append(out, rid)

\* lines 151-155: the entries that carry a roster_id, the last one winning
index_by_roster_id(list) ==
    LET rids == {list[k].roster_id : k \in 1..Len(list)} \ {None}
        LastOf(rid) == CHOOSE k \in 1..Len(list) :
                          /\ list[k].roster_id = rid
                          /\ \A j \in k + 1..Len(list) : list[j].roster_id # rid
    IN  [rid \in rids |-> list[LastOf(rid)]]

\* lines 159-164
InitialBest == [roster_id |-> None, total |-> -1, lineup |-> <<>>]

\* line 177: total > best["total"]
Better(t, best_total) == t > best_total

\* lines 173-178: the result of one roster, and best after it
ScoreRoster(b, rid, m, req, meta_by_id) ==
    LET pool == build_roster_pool(m, meta_by_id)
        sel == select_fixed_best(pool, req)
        entry == [roster_id |-> rid, total |-> sel.total, lineup |-> sel.chosen]
    IN  [pool |-> pool, entry |-> entry,
         best |-> IF Better(sel.total, b.total) THEN entry ELSE b]

\* the ids of a set as an ascending list
RECURSIVE AscendingList(_)
AscendingList(S) ==
    IF S = {} THEN <<>>
    ELSE LET m == CHOOSE x \in S : \A y \in S : x <= y
         IN  <<m>> \o AscendingList(S \ {m})

\* the matchup entries one roster can have for the week: players_points
\* holds points for some of the entry's players
TopEntries(rid) ==
    UNION { { [roster_id |-> Some(rid), players |-> AscendingList(P), players_points |-> pm] :
                pm \in UNION {[Q -> TopPoints] : Q \in SUBSET P} }
            : P \in SUBSET DOMAIN PlayerTable }

\* at most one entry per roster, in roster_id order
RECURSIVE TopRosterEntries(_)
TopRosterEntries(n) ==
    IF n = 0 THEN {<<>>}
    ELSE LET shorter == TopRosterEntries(n - 1)
         IN  shorter \cup {Append(l, en) : l \in shorter, en \in TopEntries(n)}

\* an entry that carries no roster_id
NoRosterEntry ==
    [roster_id |-> None, players |-> <<1>>, players_points |-> [pid \in {1} |-> 1]]

\* the week's matchups: the rosters' entries, with or without a stray entry
TopMatchupLists(n) ==
    TopRosterEntries(n) \cup {Append(l, NoRosterEntry) : l \in TopRosterEntries(n)}

\* the rosters list: every roster of the league once, in any order
TopRosterLists ==
    {f \in [1..NumTopRosters -> TopRosterIds] :
        \A a, b \in 1..NumTopRosters : f[a] = f[b] => a = b}

\* what a get_json call can return: a JSON value when get_json is run on its
\* own, and for each fetch of find_top_roster_for_week the data it asks for
Responses(fetch) ==
    CASE fetch = "league" -> TopRosterPositions
      [] fetch = "users" -> {<<>>}
      [] fetch = "rosters" -> TopRosterLists
      [] fetch = "matchups" -> TopMatchupLists(NumTopRosters)
      [] fetch = "players" -> {PlayerTable}
      [] OTHER -> JsonValues

(***************************************************************************)
(* SpecGetJson: get_json(url, retries), lines 19-29.  A request fails in   *)
(* requests.get, in raise_for_status or in r.json(); every exception is    *)
(* caught at line 26.  The program is sequential and always takes its next *)
(* step, hence the weak fairness.                                          *)
(***************************************************************************)
MaxRetries == 4
Exceptions == {"ConnectionError", "HTTPError", "JSONDecodeError"}

\* one pass too many
InRangeInclusive(k, n) == k <= n

\* line 21: for i in range(retries)
InRange(k, n) == k < n

InitGetJson ==
    /\ pc = "gj_loop"
    /\ retries \in 0..MaxRetries
    /\ i = 0 /\ last = None /\ result = None /\ log = <<>>
    /\ IdleLineup /\ IdleWeek /\ IdleStandings /\ IdleScores /\ IdleKickers /\ IdleTop

\* lines 23-25 without an exception
RequestReturns ==
    /\ pc = "gj_loop" /\ InRange(i, retries)
    /\ \E j \in Responses(fetching) : result' = Some(j)
    /\ log' = Append(log, "ok")
    /\ pc' = "gj_returned"
    /\ UNCHANGED <<retries, i, last, lineupVars, weekVars, standingsVars, scoresVars, kickersVars, topVars>>

\* lines 23-27: an exception, caught
RequestFails ==
    /\ pc = "gj_loop" /\ InRange(i, retries)
    /\ \E e \in Exceptions : last' = Some(e)
    /\ log' = Append(log, "err")
    /\ pc' = "gj_sleep"
    /\ UNCHANGED <<retries, i, result, lineupVars, weekVars, standingsVars, scoresVars, kickersVars, topVars>>

\* line 28, then the next pass of the loop
SleepThenNext ==
    /\ pc = "gj_sleep"
    /\ i' = i + 1
    /\ pc' = "gj_loop"
    /\ UNCHANGED <<retries, last, result, log, lineupVars, weekVars, standingsVars,
                   scoresVars, kickersVars, topVars>>

\* line 29
RaiseRuntimeError ==
    /\ pc = "gj_loop" /\ ~InRange(i, retries)
    /\ pc' = "gj_raised"
    /\ UNCHANGED <<getJsonVars, lineupVars, weekVars, standingsVars, scoresVars, kickersVars, topVars>>

NextGetJson == RequestReturns \/ RequestFails \/ SleepThenNext \/ RaiseRuntimeError
SpecGetJson == InitGetJson /\ [][NextGetJson]_vars /\ WF_vars(NextGetJson)

AllFailed(l) == \A k \in 1..Len(l) : l[k] = "err"

\* C6: get_json issues at most `retries` requests; it returns the result of
\* the first successful one and issues none after it; when all `retries`
\* requests fail it raises after exactly `retries` of them; it always ends.
GetJsonContract ==
    /\ [](Len(log) <= retries)
    /\ [](pc = "gj_returned" =>
            /\ log[Len(log)] = "ok"
            /\ AllFailed(SubSeq(log, 1, Len(log) - 1))
            /\ result \in {Some(j) : j \in JsonValues})
    /\ [](pc = "gj_raised" => Len(log) = retries /\ AllFailed(log) /\ result = None)
    /\ [][(pc \in {"gj_returned", "gj_raised"}) => UNCHANGED log]_vars
    /\ <>(pc \in {"gj_returned", "gj_raised"})

\* a success after failed attempts, with attempts to spare
GetJsonWitness ==
    /\ pc = "gj_returned"
    /\ Len(log) >= 2
    /\ Len(log) < retries
    /\ last \in {Some(e) : e \in Exceptions}

(***************************************************************************)
(* SpecKickers: analyze_field_goal_distances, Kickers.py lines 14-31, on   *)
(* every frame of attempts within the bounds.                              *)
(***************************************************************************)
MaxAttempts == 2
MaxDistance == 100
FieldGoalResults == {"made", "missed"}

bins == <<0, 29, 39, 49, 54, 59, 99>>
labels == <<"<30", "30-39", "40-49", "50-54", "55-59", "60+">>

\* pd.cut(x, bins, labels, right=False): interval k is [bins[k], bins[k+1]);
\* a value in no interval gets NaN
cut(x) ==
    IF \E k \in 1..Len(labels) : bins[k] <= x /\ x < bins[k + 1]
    THEN labels[CHOOSE k \in 1..Len(labels) : bins[k] <= x /\ x < bins[k + 1]]
    ELSE "NaN"

\* lines 24-27: groupby('distance_bucket').agg(attempts, makes); rows whose
\* bucket is NaN belong to no group
agg(frame) ==
    [l \in {labels[k] : k \in 1..Len(labels)} |->
        [attempts |-> Cardinality({k \in 1..Len(frame) : cut(frame[k].kick_distance) = l}),
         makes |-> Cardinality({k \in 1..Len(frame) :
                        /\ cut(frame[k].kick_distance) = l
                        /\ frame[k].field_goal_result = "made"})]]

Attempts == [kick_distance : 0..MaxDistance, field_goal_result : FieldGoalResults]
Frames == UNION { [1..n -> Attempts] : n \in 0..MaxAttempts }

InitKickers ==
    /\ pc = "analyze"
    /\ field_goals \in Frames
    /\ fg_summary = <<>>
    /\ IdleLineup /\ IdleGetJson /\ IdleWeek /\ IdleStandings /\ IdleScores /\ IdleTop

AnalyzeFieldGoalDistances ==
    /\ pc = "analyze"
    /\ fg_summary' = agg(field_goals)
    /\ pc' = "summarized"
    /\ UNCHANGED <<field_goals, lineupVars, getJsonVars, weekVars, standingsVars, scoresVars, topVars>>

NextKickers == AnalyzeFieldGoalDistances
SpecKickers == InitKickers /\ [][NextKickers]_vars

LabelSet == {labels[k] : k \in 1..Len(labels)}
RECURSIVE SumAttempts(_, _)
SumAttempts(summary, L) ==
    IF L = {} THEN 0
    ELSE LET l == CHOOSE x \in L : TRUE
         IN  summary[l].attempts + SumAttempts(summary, L \ {l})

\* C8: every attempt falls into exactly one of the six buckets, so the
\* per-bucket attempt counts sum to the number of attempts.
BucketsPartition ==
    pc = "summarized" =>
        /\ \A k \in 1..Len(field_goals) :
              Cardinality({l \in LabelSet : cut(field_goals[k].kick_distance) = l}) = 1
        /\ SumAttempts(fg_summary, LabelSet) = Len(field_goals)

\* the bucket a label names, for an integer distance
LabelOf(d) ==
    CASE d < 30 -> "<30"
      [] d >= 30 /\ d <= 39 -> "30-39"
      [] d >= 40 /\ d <= 49 -> "40-49"
      [] d >= 50 /\ d <= 54 -> "50-54"
      [] d >= 55 /\ d <= 59 -> "55-59"
      [] d >= 60 -> "60+"

\* C9: each attempt is counted in the bucket whose label describes its
\* distance: d < 30 under "<30", 30..39 under "30-39", 40..49 under "40-49",
\* 50..54 under "50-54", 55..59 under "55-59", d >= 60 under "60+".
BucketsMatchLabels ==
    pc = "summarized" =>
        \A l \in LabelSet :
            fg_summary[l].attempts =
                Cardinality({k \in 1..Len(field_goals) : LabelOf(field_goals[k].kick_distance) = l})

(***************************************************************************)
(* The week loops of Standings.py and topScorer.py.  get_matchups returns  *)
(* response.json() when the status code is 200 and None otherwise; the     *)
(* loops test `not matchups`, true of None and of an empty list.  Nothing  *)
(* catches an exception of requests.get or of response.json(): it leaves   *)
(* get_matchups and the loop that called it.                               *)
(***************************************************************************)
MaxWeek == 2

\* Standings.py 21 and 45, topScorer.py 16 and 49: `not matchups`
NotMatchups(response) == response.status_code # 200 \/ response.json = <<>>

FailedResponse == [status_code |-> 500, json |-> <<>>]

\* the record of one get_matchups call
Call(w, response) ==
    [week |-> w, status_code |-> response.status_code, entries |-> Len(response.json)]

\* the record of a get_matchups call that raised: no response was returned
RaisedCall(w) == [week |-> w, status_code |-> 0, entries |-> 0]

\* Standings.py 47, topScorer.py 51: `continue` takes the loop to the next week
AfterFailedWeek(w, last_week) == w + 1

RECURSIVE SortedSeq(_)
SortedSeq(S) ==
    IF S = {} THEN <<>>
    ELSE LET m == CHOOSE x \in S : \A y \in S : x <= y
         IN  <<m>> \o SortedSeq(S \ {m})

(***************************************************************************)
(* SpecStandings: process_matchups, Standings.py lines 23-88.              *)
(***************************************************************************)
MaxPoints == 1
\* two rosters give every relation of an entry to its opponent: none named,
\* named but absent from the list, the roster itself, the other roster
RosterIds == {1, 2}
DivisionLabels == {"1", "Unknown"}

\* line 56: `if opponent_id:` is false of None and of 0
Truthy(x) == x # None /\ x # Some(0)

\* lines 53-59: the opponent's points, None when they cannot be found
OpponentPoints(list, opponent_id) ==
    IF Truthy(opponent_id) /\ \E j \in 1..Len(list) : Some(list[j].roster_id) = opponent_id
    THEN Some(list[CHOOSE j \in 1..Len(list) :
                      /\ Some(list[j].roster_id) = opponent_id
                      /\ \A k \in 1..(j - 1) : Some(list[k].roster_id) # opponent_id].points)
    ELSE None

Inc(st, r, counter) == [st EXCEPT ![r][counter] = @ + 1]

\* lines 66-74
Overall(st, r, o, points, opponent_points) ==
    IF points > opponent_points THEN Inc(Inc(st, r, "wins"), o, "losses")
    ELSE IF points < opponent_points THEN Inc(Inc(st, r, "losses"), o, "wins")
    ELSE Inc(Inc(st, r, "ties"), o, "ties")

\* the division test left out: every result counts as divisional
DivisionalAlways(st, divisions, r, o, points, opponent_points) ==
    IF points > opponent_points
    THEN Inc(Inc(st, r, "division_wins"), o, "division_losses")
    ELSE IF points < opponent_points
         THEN Inc(Inc(st, r, "division_losses"), o, "division_wins")
         ELSE Inc(Inc(st, r, "division_ties"), o, "division_ties")

\* lines 77-86
Divisional(st, divisions, r, o, points, opponent_points) ==
    IF divisions[r] = divisions[o]
    THEN IF points > opponent_points
         THEN Inc(Inc(st, r, "division_wins"), o, "division_losses")
         ELSE IF points < opponent_points
              THEN Inc(Inc(st, r, "division_losses"), o, "division_wins")
              ELSE Inc(Inc(st, r, "division_ties"), o, "division_ties")
    ELSE st

\* an entry without a resolvable opponent booked as a loss
ProcessMatchupBooksLoss(st, divisions, list, k) ==
    LET roster_id == list[k].roster_id
        points == list[k].points
        opponent_id == list[k].matchup_id
        opponent_points == OpponentPoints(list, opponent_id)
    IN  IF opponent_points = None THEN Inc(st, roster_id, "losses")
        ELSE Divisional(Overall(st, roster_id, Value(opponent_id), points,
                                Value(opponent_points)),
                        divisions, roster_id, Value(opponent_id), points,
                        Value(opponent_points))

\* lines 49-86: one pass of the loop over the week's entries
ProcessMatchup(st, divisions, list, k) ==
    LET roster_id == list[k].roster_id
        points == list[k].points
        opponent_id == list[k].matchup_id
        opponent_points == OpponentPoints(list, opponent_id)
    IN  IF opponent_points = None THEN st
        ELSE Divisional(Overall(st, roster_id, Value(opponent_id), points,
                                Value(opponent_points)),
                        divisions, roster_id, Value(opponent_id), points,
                        Value(opponent_points))

ZeroRecord ==
    [wins |-> 0, losses |-> 0, ties |-> 0,
     division_wins |-> 0, division_losses |-> 0, division_ties |-> 0]

MatchupEntries ==
    [roster_id : RosterIds, points : 0..MaxPoints,
     matchup_id : {None} \cup {Some(r) : r \in RosterIds}]
\* a week's list: at most one entry per roster, in roster order
MatchupLists ==
    UNION { { [k \in 1..Len(SortedSeq(S)) |-> [f[k] EXCEPT !.roster_id = SortedSeq(S)[k]]]
              : f \in [1..Cardinality(S) -> MatchupEntries] } : S \in SUBSET RosterIds }
StandingsResponses ==
    {FailedResponse} \cup {[status_code |-> 200, json |-> l] : l \in MatchupLists}

InitStandings ==
    /\ pc = "st_rosters"
    /\ end_week \in 0..MaxWeek
    /\ start_week = 1 /\ week = 0 /\ matchups = NoResponse /\ calls = <<>>
    /\ IdleStandings
    /\ IdleLineup /\ IdleGetJson /\ IdleScores /\ IdleKickers /\ IdleTop

\* lines 27-41 with the rosters fetched
RostersFetched ==
    /\ pc = "st_rosters"
    /\ \E divisions \in [RosterIds -> DivisionLabels] : roster_divisions' = divisions
    /\ standings' = [r \in RosterIds |-> ZeroRecord]
    /\ week' = 1
    /\ pc' = "st_week"
    /\ UNCHANGED <<start_week, end_week, matchups, calls, idx, lineupVars, getJsonVars,
                   scoresVars, kickersVars, topVars>>

\* lines 27-30: `if not rosters: return None`
RostersFailed ==
    /\ pc = "st_rosters"
    /\ pc' = "st_aborted"
    /\ UNCHANGED <<weekVars, standingsVars, lineupVars, getJsonVars, scoresVars, kickersVars, topVars>>

\* line 27: get_rosters raises (lines 12-13), and so does process_matchups
RostersRaises ==
    /\ pc = "st_rosters"
    /\ pc' = "st_rosters_raised"
    /\ UNCHANGED <<weekVars, standingsVars, lineupVars, getJsonVars, scoresVars, kickersVars, topVars>>

\* line 44: get_matchups raises (lines 20-21), and so does process_matchups;
\* the weeks after this one are not requested
StandingsFetchRaises ==
    /\ pc = "st_week" /\ week <= end_week
    /\ calls' = Append(calls, RaisedCall(week))
    /\ pc' = "st_week_raised"
    /\ UNCHANGED <<week, start_week, end_week, matchups, standingsVars, lineupVars,
                   getJsonVars, scoresVars, kickersVars, topVars>>

\* lines 43-47: the week's fetch fails, `continue`
StandingsFetchFails ==
    /\ pc = "st_week" /\ week <= end_week
    /\ \E response \in StandingsResponses :
          /\ NotMatchups(response)
          /\ matchups' = response
    /\ calls' = Append(calls, Call(week, matchups'))
    /\ week' = AfterFailedWeek(week, end_week)
    /\ UNCHANGED <<pc, start_week, end_week, standingsVars, lineupVars, getJsonVars,
                   scoresVars, kickersVars, topVars>>

\* lines 43-49: the week's list is fetched
StandingsFetch ==
    /\ pc = "st_week" /\ week <= end_week
    /\ \E response \in StandingsResponses :
          /\ ~NotMatchups(response)
          /\ matchups' = response
    /\ calls' = Append(calls, Call(week, matchups'))
    /\ idx' = 1
    /\ pc' = "st_matchup"
    /\ UNCHANGED <<week, start_week, end_week, roster_divisions, standings, lineupVars,
                   getJsonVars, scoresVars, kickersVars, topVars>>

\* lines 49-86: the entry in turn
StandingsMatchup ==
    /\ pc = "st_matchup" /\ idx <= Len(matchups.json)
    /\ standings' = ProcessMatchup(standings, roster_divisions, matchups.json, idx)
    /\ idx' = idx + 1
    /\ UNCHANGED <<pc, weekVars, roster_divisions, lineupVars, getJsonVars, scoresVars,
                   kickersVars, topVars>>

\* the entries are exhausted: next week
StandingsWeekDone ==
    /\ pc = "st_matchup" /\ idx > Len(matchups.json)
    /\ week' = week + 1
    /\ pc' = "st_week"
    /\ UNCHANGED <<start_week, end_week, matchups, calls, standingsVars, lineupVars,
                   getJsonVars, scoresVars, kickersVars, topVars>>

\* line 88
StandingsReturn ==
    /\ pc = "st_week" /\ week > end_week
    /\ pc' = "st_done"
    /\ UNCHANGED <<weekVars, standingsVars, lineupVars, getJsonVars, scoresVars, kickersVars, topVars>>

NextStandings ==
    \/ RostersFetched \/ RostersFailed \/ RostersRaises
    \/ StandingsFetchRaises \/ StandingsFetchFails \/ StandingsFetch
    \/ StandingsMatchup \/ StandingsWeekDone \/ StandingsReturn
SpecStandings == InitStandings /\ [][NextStandings]_vars

Played(st, r) == st[r].wins + st[r].losses + st[r].ties

\* the entries at k and at j are the two sides of one matchup
TwoSided(list, k, j) ==
    /\ k # j
    /\ list[k].roster_id # list[j].roster_id
    /\ list[k].matchup_id = Some(list[j].roster_id)
    /\ list[j].matchup_id = Some(list[k].roster_id)
\* every entry of the list is one side of a two-sided matchup or names no opponent
WellPaired(list) ==
    \A k \in 1..Len(list) :
        list[k].matchup_id = None \/ \E j \in 1..Len(list) : TwoSided(list, k, j)
MatchupsOf(list, r) ==
    Cardinality({k \in 1..Len(list) :
                    /\ list[k].roster_id = r
                    /\ \E j \in 1..Len(list) : TwoSided(list, k, j)})
OneResult(st, a, b) ==
    LET res == <<st[a].wins, st[a].losses, st[a].ties, st[b].wins, st[b].losses, st[b].ties>>
    IN  res \in {<<1, 0, 0, 0, 1, 0>>, <<0, 1, 0, 1, 0, 0>>, <<0, 0, 1, 0, 0, 1>>}

\* C3: once a week of two-sided matchups is processed, exactly one of
\* (win/loss), (loss/win), (tie/tie) is recorded across each pair and each
\* roster's wins+losses+ties is the number of matchups it took part in
\* (stated for the first week of the range, the counters starting at zero).
StandingsSymmetric ==
    (/\ pc = "st_matchup" /\ week = 1 /\ idx > Len(matchups.json)
     /\ WellPaired(matchups.json)) =>
        /\ \A r \in RosterIds : Played(standings, r) = MatchupsOf(matchups.json, r)
        /\ \A k, j \in 1..Len(matchups.json) :
              TwoSided(matchups.json, k, j) =>
                  OneResult(standings, matchups.json[k].roster_id, matchups.json[j].roster_id)

\* the opponent of entry k cannot be resolved
Unresolved(list, k) ==
    \/ list[k].matchup_id = None
    \/ ~\E j \in 1..Len(list) : Some(list[j].roster_id) = list[k].matchup_id

\* C4: processing an entry whose opponent's points cannot be resolved (no
\* matchup_id, or no entry of the opponent in the week's list) changes no
\* counter of any roster, and the loop goes on to the entry after it: the
\* week is left only once every entry has had its turn.
UnresolvedIsSkipped ==
    /\ [][(pc = "st_matchup" /\ idx <= Len(matchups.json) /\ Unresolved(matchups.json, idx))
            => (/\ standings' = standings
                /\ idx' = idx + 1
                /\ pc' = "st_matchup"
                /\ matchups' = matchups /\ week' = week)]_vars
    /\ [][(pc = "st_matchup" /\ pc' # "st_matchup") => idx > Len(matchups.json)]_vars

\* a resolved entry recorded after an unresolved one was skipped
UnresolvedWitness ==
    /\ pc = "st_matchup"
    /\ Len(matchups.json) = 2
    /\ idx = 3
    /\ Unresolved(matchups.json, 1)
    /\ ~Unresolved(matchups.json, 2)
    /\ Played(standings, matchups.json[2].roster_id) = 1
    /\ week = 1

(***************************************************************************)
(* SpecScores: find_scores_by_position, topScorer.py lines 41-79.          *)
(* A week's list has two matchup entries; entry 1 carries the points of    *)
(* the odd player ids up to n, entry 2 those of the even ones.  The lists  *)
(* drawn are every assignment of scores to up to FullPlayers players, and  *)
(* every multiset of scores on up to MaxPlayers players (scores ascending  *)
(* in the player id, so that no position_scores list arrives sorted).      *)
(***************************************************************************)
MaxPlayers == 14
FullPlayers == 3
MaxPlayerScore == 2
PositionArgs == {"K", "TE"}

\* the players database: player 1 is a tight end, the others are kickers;
\* an id outside the database has no position (players.get(player_id, {}))
PlayerPosition(player_id) ==
    IF player_id = 1 THEN Some("TE")
    ELSE IF player_id >= 2 THEN Some("K")
    ELSE None

\* list.sort(reverse=True) on numbers
RECURSIVE InsertNumDesc(_, _)
InsertNumDesc(x, sorted) ==
    IF sorted = <<>> THEN <<x>>
    ELSE IF Head(sorted) >= x
         THEN <<Head(sorted)>> \o InsertNumDesc(x, Tail(sorted))
         ELSE <<x>> \o sorted

RECURSIVE SortReverseRec(_)
SortReverseRec(s) ==
    IF s = <<>> THEN <<>>
    ELSE InsertNumDesc(s[Len(s)], SortReverseRec(SubSeq(s, 1, Len(s) - 1)))

\* line 63
SortReverse(s) == SortReverseRec(s)

\* lines 57-60: the scores of one entry's players at the position
RECURSIVE EntryScores(_, _)
EntryScores(items, pos) ==
    IF items = <<>> THEN <<>>
    ELSE (IF PlayerPosition(Head(items).player_id) = Some(pos)
          THEN <<Head(items).score>> ELSE <<>>) \o EntryScores(Tail(items), pos)

\* lines 53-60: position_scores of the week
RECURSIVE PositionScores(_, _)
PositionScores(list, pos) ==
    IF list = <<>> THEN <<>>
    ELSE EntryScores(Head(list).players_points, pos) \o PositionScores(Tail(list), pos)

\* the rank read one place early
TwelfthOffByOne(sorted) == IF Len(sorted) >= 12 THEN Some(sorted[11]) ELSE None

\* line 65: position_scores[11] if len(position_scores) >= 12 else None
Twelfth(sorted) == IF Len(sorted) >= 12 THEN Some(sorted[11 + 1]) ELSE None

\* lines 62-77: the week's entry of weekly_scores
WeekEntry(w, list, pos) ==
    LET position_scores == PositionScores(list, pos)
        sorted == SortReverse(position_scores)
    IN  IF position_scores # <<>>
        THEN [week |-> w, highest_score |-> Some(sorted[1]),
              twelfth_highest_score |-> Twelfth(sorted)]
        ELSE [week |-> w, highest_score |-> None, twelfth_highest_score |-> None]

PointsItems(S, f) == [k \in 1..Len(SortedSeq(S)) |->
                        [player_id |-> SortedSeq(S)[k], score |-> f[SortedSeq(S)[k]]]]
WeekList(n, f) ==
    << [players_points |-> PointsItems({q \in 1..n : q % 2 = 1}, f)],
       [players_points |-> PointsItems({q \in 1..n : q % 2 = 0}, f)] >>
\* score assignments ascending in the player id: one per multiset of scores
AscendingScores(n) ==
    { [q \in 1..n |-> Cardinality({v \in 1..MaxPlayerScore : cuts[v] < q})] :
        cuts \in { c \in [1..MaxPlayerScore -> 0..n] :
                     \A u, v \in 1..MaxPlayerScore : u <= v => c[u] <= c[v] } }
ScoreAssignments(n) ==
    IF n <= FullPlayers THEN [1..n -> 0..MaxPlayerScore] ELSE AscendingScores(n)
ScoresResponses ==
    {FailedResponse, [status_code |-> 200, json |-> <<>>]} \cup
    UNION { { [status_code |-> 200, json |-> WeekList(n, f)] : f \in ScoreAssignments(n) }
            : n \in 0..MaxPlayers }

InitScores ==
    /\ pc = "ts_week"
    /\ position \in PositionArgs
    /\ start_week \in 1..2
    /\ end_week \in 0..MaxWeek
    /\ week = start_week
    /\ matchups = NoResponse /\ calls = <<>> /\ weekly_scores = <<>>
    /\ IdleStandings /\ IdleLineup /\ IdleGetJson /\ IdleKickers /\ IdleTop

\* line 48: get_matchups raises (lines 15-16), and so does
\* find_scores_by_position; the weeks after this one are not requested
ScoresFetchRaises ==
    /\ pc = "ts_week" /\ week <= end_week
    /\ calls' = Append(calls, RaisedCall(week))
    /\ pc' = "ts_week_raised"
    /\ UNCHANGED <<week, start_week, end_week, matchups, scoresVars, standingsVars,
                   lineupVars, getJsonVars, kickersVars, topVars>>

\* lines 47-51: the week's fetch fails, `continue`
ScoresFetchFails ==
    /\ pc = "ts_week" /\ week <= end_week
    /\ \E response \in ScoresResponses :
          /\ NotMatchups(response)
          /\ matchups' = response
    /\ calls' = Append(calls, Call(week, matchups'))
    /\ week' = AfterFailedWeek(week, end_week)
    /\ UNCHANGED <<pc, start_week, end_week, scoresVars, standingsVars, lineupVars,
                   getJsonVars, kickersVars, topVars>>

\* lines 47-77: the week is fetched and its entry appended
ScoresWeek ==
    /\ pc = "ts_week" /\ week <= end_week
    /\ \E response \in ScoresResponses :
          /\ ~NotMatchups(response)
          /\ matchups' = response
          /\ weekly_scores' = Append(weekly_scores, WeekEntry(week, response.json, position))
    /\ calls' = Append(calls, Call(week, matchups'))
    /\ pc' = "ts_next"
    /\ UNCHANGED <<week, start_week, end_week, position, standingsVars, lineupVars,
                   getJsonVars, kickersVars, topVars>>

\* line 47: the next pass of the loop
ScoresNextWeek ==
    /\ pc = "ts_next"
    /\ week' = week + 1
    /\ pc' = "ts_week"
    /\ UNCHANGED <<start_week, end_week, matchups, calls, scoresVars, standingsVars, lineupVars,
                   getJsonVars, kickersVars, topVars>>

\* line 79
ScoresReturn ==
    /\ pc = "ts_week" /\ week > end_week
    /\ pc' = "ts_done"
    /\ UNCHANGED <<weekVars, scoresVars, standingsVars, lineupVars, getJsonVars, kickersVars, topVars>>

NextScores ==
    \/ ScoresFetchRaises \/ ScoresFetchFails \/ ScoresWeek \/ ScoresNextWeek
    \/ ScoresReturn
SpecScores == InitScores /\ [][NextScores]_vars

\* the position's scores of a list, as (entry, item) places
ScorePlaces(list, pos) ==
    { pl \in UNION { {<<a, b>> : b \in 1..Len(list[a].players_points)} : a \in 1..Len(list) } :
        PlayerPosition(list[pl[1]].players_points[pl[2]].player_id) = Some(pos) }
ScoreAtPlace(list, pl) == list[pl[1]].players_points[pl[2]].score
LastEntry == weekly_scores[Len(weekly_scores)]

\* C7: the entry appended for a fetched week reports the maximum of the
\* week's scores at the position, and as 12th-highest the 12th element of the
\* scores in descending order, or None (not zero) when there are fewer than 12.
WeekEntryIsRankStatistic ==
    pc = "ts_next" =>
        LET list == matchups.json
            places == ScorePlaces(list, position)
            e == LastEntry
            above(v) == Cardinality({pl \in places : ScoreAtPlace(list, pl) > v})
            atLeast(v) == Cardinality({pl \in places : ScoreAtPlace(list, pl) >= v})
        IN  /\ e.week = week
            /\ places = {} => e.highest_score = None /\ e.twelfth_highest_score = None
            /\ places # {} =>
                  /\ e.highest_score # None
                  /\ \E pl \in places : ScoreAtPlace(list, pl) = Value(e.highest_score)
                  /\ \A pl \in places : ScoreAtPlace(list, pl) <= Value(e.highest_score)
            /\ (places # {} /\ Cardinality(places) < 12) => e.twelfth_highest_score = None
            /\ Cardinality(places) >= 12 =>
                  /\ e.twelfth_highest_score # None
                  /\ above(Value(e.twelfth_highest_score)) < 12
                  /\ atLeast(Value(e.twelfth_highest_score)) >= 12

\* thirteen kicker scores whose 12th-highest is neither the best nor the worst
WeekEntryWitness ==
    /\ pc = "ts_next"
    /\ position = "K"
    /\ Cardinality(ScorePlaces(matchups.json, "K")) >= 13
    /\ LastEntry.twelfth_highest_score # None
    /\ Value(LastEntry.twelfth_highest_score) < Value(LastEntry.highest_score)
    /\ \E pl \in ScorePlaces(matchups.json, "K") :
          ScoreAtPlace(matchups.json, pl) < Value(LastEntry.twelfth_highest_score)

(***************************************************************************)
(* SpecWeekLoops: the two week loops side by side.                         *)
(***************************************************************************)
InitWeekLoops == InitStandings \/ InitScores
NextWeekLoops == NextStandings \/ NextScores
SpecWeekLoops == InitWeekLoops /\ [][NextWeekLoops]_vars

WeeksOf(s) == [k \in 1..Len(s) |-> s[k].week]
Range(a, b) == [k \in 1..(IF b >= a THEN b - a + 1 ELSE 0) |-> a + k - 1]
Processed(c) == c.status_code = 200 /\ c.entries > 0

LoopEnded == pc \in {"st_done", "ts_done", "st_week_raised", "ts_week_raised"}

\* C5: a failed matchup fetch skips only its week: the step of a fetch that
\* brings no 200 response leaves the accumulated result as it was and moves
\* to the next week, and when either loop has ended every week of the range
\* has been requested once, in order, whatever the failures; the scores list
\* holds exactly the weeks whose fetch brought a list.
FailedWeekIsSkipped ==
    /\ [][(calls' # calls /\ calls'[Len(calls')].status_code # 200)
            => (/\ standings' = standings
                /\ weekly_scores' = weekly_scores
                /\ week' = week + 1
                /\ pc' = pc)]_vars
    /\ [](LoopEnded =>
            /\ WeeksOf(calls) = Range(start_week, end_week)
            /\ pc = "ts_done" => WeeksOf(weekly_scores) = WeeksOf(SelectSeq(calls, Processed)))
    /\ [][(calls' # calls /\ Processed(calls'[Len(calls')]))
            => pc' \in {"st_matchup", "ts_next"}]_vars

(***************************************************************************)
(* Divisional counters of process_matchups (SpecStandings).                *)
(***************************************************************************)
\* the change of each overall counter and of its divisional twin in one step
OverallDelta(r) ==
    <<standings'[r].wins - standings[r].wins,
      standings'[r].losses - standings[r].losses,
      standings'[r].ties - standings[r].ties>>
DivisionDelta(r) ==
    <<standings'[r].division_wins - standings[r].division_wins,
      standings'[r].division_losses - standings[r].division_losses,
      standings'[r].division_ties - standings[r].division_ties>>

\* C11: whenever a comparison updates the overall win/loss/tie counters of a
\* pair, the divisional counters of the same two rosters are updated in the
\* same way exactly when both rosters carry the same division label, and are
\* left unchanged otherwise; hence division_wins <= wins, division_losses <=
\* losses and division_ties <= ties for every roster in every state.
DivisionFollowsOverall ==
    /\ [][(pc = "st_matchup" /\ pc' = "st_matchup" /\ idx' = idx + 1) =>
            LET a == matchups.json[idx].roster_id
                b == Value(matchups.json[idx].matchup_id)
            IN  IF standings' = standings
                THEN Unresolved(matchups.json, idx)
                ELSE /\ matchups.json[idx].matchup_id # None
                     /\ b \in RosterIds
                     /\ \A r \in RosterIds \ {a, b} : standings'[r] = standings[r]
                     /\ \A r \in {a, b} :
                           /\ OverallDelta(r) # <<0, 0, 0>>
                           /\ DivisionDelta(r) =
                                 IF roster_divisions[a] = roster_divisions[b]
                                 THEN OverallDelta(r) ELSE <<0, 0, 0>>]_vars
    /\ [](pc \in {"st_week", "st_matchup", "st_done"} =>
            \A r \in RosterIds :
                /\ standings[r].division_wins <= standings[r].wins
                /\ standings[r].division_losses <= standings[r].losses
                /\ standings[r].division_ties <= standings[r].ties)

\* a win and the loss facing it, both booked as divisional
DivisionWitness ==
    /\ pc = "st_done"
    /\ roster_divisions[1] = roster_divisions[2]
    /\ standings[1].wins >= 1 /\ standings[1].division_wins = standings[1].wins
    /\ standings[2].losses >= 1 /\ standings[2].division_losses = standings[2].losses
    /\ standings[1].ties = 0 /\ standings[2].ties = 0

(***************************************************************************)
(* SpecTop: sleeper_weekly_max_pf_allteams.py, find_top_roster_for_week    *)
(* followed by main's test of best["roster_id"].  Each of the five fetches *)
(* is a call of get_json, which runs its own steps (a request, a sleep     *)
(* after a failed one) before the fetch's result is bound; the loop over   *)
(* owner_by_roster takes one step per roster.  Owner names play no part in *)
(* the choice of best: the users list is fetched and not kept.             *)
(***************************************************************************)
TopFetches == {"league", "users", "rosters", "matchups", "players"}

InitTop ==
    /\ pc = "top_league"
    /\ IdleLineup /\ IdleGetJson /\ IdleWeek /\ IdleStandings /\ IdleScores /\ IdleKickers
    /\ IdleTop

\* lines 140, 142-145: the call of get_json made by get_league, get_users,
\* get_rosters, get_matchups or get_players, with the default retries
TopCallGetJson ==
    /\ \E fetch \in TopFetches : pc = "top_" \o fetch /\ fetching' = fetch
    /\ retries' = DefaultRetries
    /\ i' = 0 /\ last' = None /\ result' = None /\ log' = <<>>
    /\ pc' = "gj_loop"
    /\ UNCHANGED <<lineupVars, weekVars, standingsVars, scoresVars, kickersVars, rosters,
                   week_matchups, players_all, owner_by_roster, matchup_by_rid, best, results,
                   rid_idx>>

\* what the return of get_json leaves of its call: the result goes to the
\* caller, the locals of get_json are no more
GetJsonGone == retries' = 0 /\ i' = 0 /\ last' = None /\ result' = None /\ log' = <<>>

\* line 140: league = get_league(league_id)
TopLeagueFetched ==
    /\ pc = "gj_returned" /\ fetching = "league"
    /\ rp' = Value(result)
    /\ fetching' = "" /\ GetJsonGone
    /\ pc' = "top_required"
    /\ UNCHANGED <<required, players, chosen, total, weekVars, standingsVars, scoresVars,
                   kickersVars, rosters, week_matchups, players_all, owner_by_roster,
                   matchup_by_rid, best, results, rid_idx>>

\* line 141: required = compute_required_from_league(league)
TopRequired ==
    /\ pc = "top_required"
    /\ required' = compute_required_from_league(rp)
    /\ pc' = "top_users"
    /\ UNCHANGED <<rp, players, chosen, total, getJsonVars, weekVars, standingsVars,
                   scoresVars, kickersVars, topVars>>

\* line 142: users = get_users(league_id)
TopUsersFetched ==
    /\ pc = "gj_returned" /\ fetching = "users"
    /\ fetching' = "" /\ GetJsonGone
    /\ pc' = "top_rosters"
    /\ UNCHANGED <<lineupVars, weekVars, standingsVars, scoresVars, kickersVars, rosters,
                   week_matchups, players_all, owner_by_roster, matchup_by_rid, best, results,
                   rid_idx>>

\* line 143: rosters = get_rosters(league_id)
TopRostersFetched ==
    /\ pc = "gj_returned" /\ fetching = "rosters"
    /\ rosters' = Value(result)
    /\ fetching' = "" /\ GetJsonGone
    /\ pc' = "top_matchups"
    /\ UNCHANGED <<lineupVars, weekVars, standingsVars, scoresVars, kickersVars,
                   week_matchups, players_all, owner_by_roster, matchup_by_rid, best, results,
                   rid_idx>>

\* line 144: matchups = get_matchups(league_id, week)
TopMatchupsFetched ==
    /\ pc = "gj_returned" /\ fetching = "matchups"
    /\ week_matchups' = Value(result)
    /\ fetching' = "" /\ GetJsonGone
    /\ pc' = "top_players"
    /\ UNCHANGED <<lineupVars, weekVars, standingsVars, scoresVars, kickersVars, rosters,
                   players_all, owner_by_roster, matchup_by_rid, best, results, rid_idx>>

\* line 145: players_all = get_players()
TopPlayersFetched ==
    /\ pc = "gj_returned" /\ fetching = "players"
    /\ players_all' = Value(result)
    /\ fetching' = "" /\ GetJsonGone
    /\ pc' = "top_setup"
    /\ UNCHANGED <<lineupVars, weekVars, standingsVars, scoresVars, kickersVars, rosters,
                   week_matchups, owner_by_roster, matchup_by_rid, best, results, rid_idx>>

\* line 29 under lines 140-145: the RuntimeError of get_json is caught
\* nowhere; it leaves find_top_roster_for_week and main, and the script ends
TopFetchRaises ==
    /\ pc = "gj_raised" /\ fetching \in TopFetches
    /\ pc' = "top_raised"
    /\ UNCHANGED <<lineupVars, getJsonVars, weekVars, standingsVars, scoresVars, kickersVars,
                   topVars>>

\* lines 147-166: the two lookups, the index of the matchups, the initial best
TopSetup ==
    /\ pc = "top_setup"
    /\ owner_by_roster' = roster_owner_lookup(rosters)
    /\ matchup_by_rid' = index_by_roster_id(week_matchups)
    /\ best' = InitialBest
    /\ results' = <<>>
    /\ rid_idx' = 1
    /\ pc' = "top_loop"
    /\ UNCHANGED <<lineupVars, getJsonVars, weekVars, standingsVars, scoresVars, kickersVars,
                   topFetched>>

\* lines 169-172: a roster without a matchup entry is passed over
TopRosterSkipped ==
    /\ pc = "top_loop"
    /\ rid_idx <= Len(owner_by_roster)
    /\ owner_by_roster[rid_idx] \notin DOMAIN matchup_by_rid
    /\ rid_idx' = rid_idx + 1
    /\ UNCHANGED <<pc, lineupVars, getJsonVars, weekVars, standingsVars, scoresVars,
                   kickersVars, topFetched, owner_by_roster, matchup_by_rid, best, results>>

\* lines 173-178: pool, lineup and total of the roster; results grows by
\* one; best changes when the total is greater than best's
TopRosterScored ==
    /\ pc = "top_loop"
    /\ rid_idx <= Len(owner_by_roster)
    /\ owner_by_roster[rid_idx] \in DOMAIN matchup_by_rid
    /\ LET rid == owner_by_roster[rid_idx]
           scored == ScoreRoster(best, rid, matchup_by_rid[rid], required,
                                 build_player_meta_by_id(players_all))
       IN  /\ players' = scored.pool
           /\ chosen' = scored.entry.lineup
           /\ total' = scored.entry.total
           /\ results' = Append(results, scored.entry)
           /\ best' = scored.best
    /\ rid_idx' = rid_idx + 1
    /\ UNCHANGED <<pc, rp, required, getJsonVars, weekVars, standingsVars, scoresVars,
                   kickersVars, topFetched, owner_by_roster, matchup_by_rid>>

\* line 180: return best, results, required
TopReturn ==
    /\ pc = "top_loop"
    /\ rid_idx > Len(owner_by_roster)
    /\ pc' = "top_main"
    /\ UNCHANGED <<lineupVars, getJsonVars, weekVars, standingsVars, scoresVars, kickersVars,
                   topVars>>

\* lines 221-223: "No valid matchups found for that week.", sys.exit(1)
MainNoValidMatchups ==
    /\ pc = "top_main"
    /\ best.roster_id = None
    /\ pc' = "top_exit_1"
    /\ UNCHANGED <<lineupVars, getJsonVars, weekVars, standingsVars, scoresVars, kickersVars,
                   topVars>>

\* lines 224-225: print_winner and print_all, then the script ends normally
MainPrints ==
    /\ pc = "top_main"
    /\ best.roster_id # None
    /\ pc' = "top_exit_0"
    /\ UNCHANGED <<lineupVars, getJsonVars, weekVars, standingsVars, scoresVars, kickersVars,
                   topVars>>

NextTop ==
    \/ TopCallGetJson
    \/ RequestReturns \/ RequestFails \/ SleepThenNext \/ RaiseRuntimeError
    \/ TopLeagueFetched \/ TopRequired \/ TopUsersFetched \/ TopRostersFetched
    \/ TopMatchupsFetched \/ TopPlayersFetched
    \/ TopFetchRaises
    \/ TopSetup
    \/ TopRosterSkipped
    \/ TopRosterScored
    \/ TopReturn
    \/ MainNoValidMatchups
    \/ MainPrints

SpecTop == InitTop /\ [][NextTop]_vars

\* the places of the rosters list whose roster has a matchup entry
TopEntered == {k \in 1..Len(owner_by_roster) : owner_by_roster[k] \in DOMAIN matchup_by_rid}

\* the optimal-lineup total of the roster at place k
OptimalTotal(k) ==
    select_fixed_best(build_roster_pool(matchup_by_rid[owner_by_roster[k]],
                                        build_player_meta_by_id(players_all)),
                      required).total

\* the first place, in roster order, whose total is the maximum
TopPlace ==
    CHOOSE k \in TopEntered :
        /\ \A j \in TopEntered : OptimalTotal(j) <= OptimalTotal(k)
        /\ \A j \in TopEntered : j < k => OptimalTotal(j) < OptimalTotal(k)

\* C12: once find_top_roster_for_week has returned, best is the first roster
\* in roster order whose optimal-lineup total is the maximum over the rosters
\* that have a matchup entry for the week, best.total and best.lineup are
\* those of that roster's entry in results, and best.roster_id is None, with
\* main ending in exit status 1, exactly when no roster has a matchup entry.
TopRosterIsBest ==
    pc \in {"top_main", "top_exit_0", "top_exit_1"} =>
        /\ (best.roster_id = None) <=> (TopEntered = {})
        /\ (pc = "top_exit_1") => (TopEntered = {})
        /\ (pc = "top_exit_0") => (TopEntered # {})
        /\ TopEntered # {} =>
              /\ best.roster_id = owner_by_roster[TopPlace]
              /\ best.total = OptimalTotal(TopPlace)
              /\ \E j \in 1..Len(results) :
                    /\ results[j].roster_id = best.roster_id
                    /\ results[j].total = best.total
                    /\ results[j].lineup = best.lineup

====
